---- MODULE Spec2Model ----
(***************************************************************************)
(* Model of the streaming dashboard (Vue script of MapContainer.tsx,       *)
(* ChartBoard.vue, AttributionFeed.vue) and of the trajectory replay clock *)
(* and city loader (React part of MapContainer.tsx).                       *)
(*                                                                         *)
(* Arrays are 0-indexed in the source; sequences here are 1-indexed, so    *)
(* the element at source index i is seq[i + 1].  The source's null and     *)
(* findIndex's "not found" are both written -1 (Null, NotFound): the code  *)
(* never stores a negative index.                                          *)
(***************************************************************************)
EXTENDS Integers, Sequences, FiniteSets, TLC

VARIABLES
    \* ---- Vue dashboard (MapContainer.tsx, <script setup>) ----
    chartData,                \* ref<any[]>: the timeline window
    anomalyData,              \* ref<any[]>: the anomaly substream
    tickCounter,              \* let tickCounter
    highlightedAnomalyIndex,  \* ref<number | null>
    highlightedFeedIndex,     \* ref<number | null>
    isPaused,                 \* ref(false)
    playbackSpeed,            \* ref(1), in units of 0.5x
    isLiveMode,               \* ref(false)
    currentCaseId,            \* ref('')
    availableCases,           \* ref<CaseInfo[]>, as the list of case ids
    ws,                       \* readyState of the current socket, "none" when ws is null
    closing,                  \* previous sockets closed by ws.close() whose close event is pending
    wsConnected,              \* ref(false)
    mountPending,             \* onMounted is still awaiting loadAvailableCases()
    timers,                   \* pending setTimeout callbacks, in creation order
    symbolName,               \* ref(''): the symbol shown, "" | "MOCK_LIVE_STREAM" | a case's symbol
    wsSent,                   \* what ws.send() has sent on the current socket: the last
                              \* pause/resume action and the last set_speed value
    \* ---- ChartBoard.vue ----
    chartApplied,             \* the ticks the chart holds (applyNewData / updateData)
    watchedLen,               \* the old value of the watcher of props.data.length
    overlays,                 \* the anomaly markers on the chart: the dataIdx each one
                              \* reports when clicked and (a history field) the arrival
                              \* number of the tick it was drawn for
    markDebounceTimer,        \* the timer of markAnomaliesDebounced is pending
    \* ---- history variables (not program state) ----
    arrivals,                 \* number of ticks ingested so far, over all subscriptions
    subIngested,              \* ticks ingested since the last setupWebSocket()
    nSetups,                  \* number of setupWebSocket() calls
    nAdvances,                \* number of clock advances
    highlightFor,             \* per view, the arrival number of the tick its present
                              \* highlight was created for
    \* ---- React replay clock (MapContainer.tsx, function MapContainer) ----
    currentTime,              \* currentTimeRef.current, in time units
    timeRange,                \* timeRangeRef.current
    isPlaying,                \* useState(true)
    animationSpeed,           \* useState(1), in units of 0.5x
    trajectories,             \* useState<UAVPath[]>: each trajectory as its timestamps
    metrics,                  \* metricsRef.current
    dashboard,                \* the dashboard DOM texts written by updateDashboardDOM
    loadPending,              \* the trajectory fetch of the initial effect has not resolved
    metricsPending,           \* the [trajectories] effect is scheduled and has not run
    rafCallbacks,             \* the pending requestAnimationFrame callbacks, in request order:
                              \* the animationSpeed each captured, and whether its id is the
                              \* one held by animFrameRef.current
    \* ---- React city loader (MapContainer.tsx, function MapContainer) ----
    currentCity,              \* useState("shenzhen")
    dataCache,                \* dataCacheRef.current, as the set of its keys
    cityShown,                \* the city whose data buildingsData, poiDemand and poiSensitive
                              \* hold, "" while they are null
    isLoadingCity,            \* useState(false)
    cityFetches,              \* per city, the loadCityData() calls awaiting their three fetches
    \* ---- history variables of the city loader (not program state) ----
    fetchCount,               \* per city, the number of times its three files were requested
    failedCities,             \* the cities a load of which has failed
    nJumps                    \* number of handleCityJump() calls

streamVars == <<chartData, anomalyData, tickCounter, highlightedAnomalyIndex,
                highlightedFeedIndex, isPaused, playbackSpeed, isLiveMode,
                currentCaseId, availableCases, ws, closing, wsConnected,
                mountPending, timers, arrivals, subIngested, nSetups,
                nAdvances, symbolName, chartApplied, watchedLen, overlays,
                markDebounceTimer, wsSent, highlightFor>>

clockVars == <<currentTime, timeRange, isPlaying, animationSpeed, trajectories,
               metrics, dashboard, loadPending, metricsPending, rafCallbacks>>

cityVars == <<currentCity, dataCache, cityShown, isLoadingCity, cityFetches,
              fetchCount, failedCities, nJumps>>

vars == <<streamVars, clockVars, cityVars>>

----------------------------------------------------------------------------
(* Bounds of the model *)

\* capacity of the timeline window (200 in the source, scaled down)
MaxChartLen == 3
\* capacity of the anomaly substream (100 in the source, scaled down)
MaxAnomalyLen == 2
\* number of messages that reach the id assignment: one more than the window holds
MaxTicks == MaxChartLen + 1
\* number of setupWebSocket() calls
MaxSetups == 2
\* number of clock advances
MaxAdvances == 2
\* number of pending highlight timers
MaxTimers == 2

\* the source's null for a highlight index
Null == -1
\* findIndex's result when no element matches
NotFound == -1
\* delay of the highlight expiry timers, in ms
HighlightTtl == 3000

Cases == {"c1", "c2"}
\* the case lists /api/available_cases may answer (empty also when it fails)
CaseLists == {<<>>, <<"c1", "c2">>}
Views == {"chart", "feed"}
\* clock advances a test clock makes around the expiry deadline
ClockSteps == {1, 2999}

----------------------------------------------------------------------------
(* Helpers of the Vue dashboard *)

\* Array.prototype.findIndex(item => item._uid === uid), 0-based
RECURSIVE FindFrom(_, _, _)
FindFrom(arr, uid, i) ==
    IF i > Len(arr) THEN NotFound
    ELSE IF arr[i].uid = uid THEN i - 1
    ELSE FindFrom(arr, uid, i + 1)

\* FindIndexByUid answering the first index when no element has the id
FindIndexByUid_FirstOnMiss(arr, uid) ==
    IF FindFrom(arr, uid, 1) = NotFound /\ Len(arr) > 0 THEN 0 ELSE FindFrom(arr, uid, 1)

FindIndexByUid(arr, uid) == FindFrom(arr, uid, 1)

\* PushBounded without the shift on overflow
PushBounded_NoShift(arr, x, cap) == Append(arr, x)

\* PushBounded inserting at the front (unshift) and dropping the last on overflow
PushBounded_Unshift(arr, x, cap) ==
    LET pushed == <<x>> \o arr
    IN  IF Len(pushed) > cap THEN SubSeq(pushed, 1, cap) ELSE pushed

\* arr.push(x); if (arr.length > cap) arr.shift()
PushBounded(arr, x, cap) ==
    LET pushed == Append(arr, x)
    IN  IF Len(pushed) > cap THEN Tail(pushed) ELSE pushed

\* AttributionFeed: [...props.data].reverse()
RECURSIVE Reverse(_)
Reverse(s) == IF s = <<>> THEN <<>> ELSE Append(Reverse(Tail(s)), Head(s))

reversedData == Reverse(anomalyData)

\* getOriginalIndex without the reversal
getOriginalIndex_Same(reversedIdx) == reversedIdx

\* AttributionFeed: reversed index to index in props.data
getOriginalIndex(reversedIdx) == Len(anomalyData) - 1 - reversedIdx

\* the parsed messages: "garbage" makes JSON.parse throw, "scalar" parses to
\* null or a primitive, "object" parses to an object with the two fields the
\* handler reads
Records ==
    {[kind |-> "garbage", hasAnomaly |-> FALSE, anomalyDetails |-> FALSE],
     [kind |-> "scalar", hasAnomaly |-> FALSE, anomalyDetails |-> FALSE]}
    \cup [kind : {"object"}, hasAnomaly : BOOLEAN, anomalyDetails : BOOLEAN]

\* the well-formed ticks whose anomaly flag and attribution payload agree
PlainRecords == {rec \in Records : rec.kind = "object" /\ rec.hasAnomaly = rec.anomalyDetails}

----------------------------------------------------------------------------
(* Actions of the Vue dashboard *)

\* ChartBoard.loadAll(): the chart's ticks afterwards
LoadAll(data) == IF Len(data) = 0 THEN chartApplied ELSE data

\* markAnomaliesIncremental(): the markers afterwards; a flagged tick whose
\* index is in markedAnomalyIndices gets no new marker
MarkAnomaliesIncremental(data, marks) ==
    marks \cup {[dataIdx |-> k - 1, for |-> data[k].arr] :
                  k \in {i \in DOMAIN data :
                            /\ data[i].hasAnomaly
                            /\ \A o \in marks : o.dataIdx # i - 1}}

\* ChartBoard's watchers, flushed after a handler of the dashboard left
\* `data` in props.data and `symbol` in props.symbolName: the watcher of
\* props.data.length runs its callback only if the length differs from the
\* one it saw last; the watcher of props.symbolName calls loadAll() in the
\* next tick
ChartBoardFlush(data, symbol) ==
    LET newLen == Len(data)
        oldLen == watchedLen
        afterLength ==
            IF newLen = oldLen \/ newLen = 0 THEN chartApplied
            ELSE IF oldLen = 0 \/ newLen < oldLen THEN LoadAll(data)
            ELSE chartApplied \o SubSeq(data, oldLen + 1, newLen)
        \* the length watcher or the symbolName watcher has run loadAll()
        loadedAll ==
            \/ newLen # oldLen /\ newLen # 0 /\ (oldLen = 0 \/ newLen < oldLen)
            \/ symbol # symbolName /\ newLen > 0
        \* the length watcher has pushed new ticks one of which is flagged
        hasNewAnomaly ==
            /\ oldLen > 0
            /\ \E k \in (oldLen + 1)..newLen : data[k].hasAnomaly
    IN  /\ chartApplied' = IF symbol # symbolName /\ newLen > 0
                           THEN data
                           ELSE afterLength
        /\ watchedLen' = newLen
        \* loadAll() clears the markers and marks again on the next tick
        /\ overlays' = IF loadedAll THEN MarkAnomaliesIncremental(data, {}) ELSE overlays
        /\ markDebounceTimer' = (markDebounceTimer \/ hasNewAnomaly)

\* the symbol_name of the case with id caseId in the list cases, '' if absent
\* (a case's symbol is written as its id)
SymbolOf(caseId, cases) ==
    IF \E i \in DOMAIN cases : cases[i] = caseId THEN caseId ELSE ""

\* no highlight is present
NoHighlight == [feed |-> Null, chart |-> Null]

\* no control message has been sent on the socket
NothingSent == [replay |-> "none", speed |-> Null]

\* setupWebSocket() that leaves the replay controls as they are
SetupWebSocket_KeepsControls(chart, live, caseId, cases) ==
    /\ chartData' = chart
    /\ symbolName' = IF live THEN "MOCK_LIVE_STREAM" ELSE SymbolOf(caseId, cases)
    /\ ChartBoardFlush(chart, IF live THEN "MOCK_LIVE_STREAM" ELSE SymbolOf(caseId, cases))
    /\ closing' = IF ws \in {"connecting", "open"} THEN closing + 1 ELSE closing
    /\ highlightedAnomalyIndex' = Null
    /\ highlightedFeedIndex' = Null
    /\ highlightFor' = NoHighlight
    /\ tickCounter' = 0
    /\ anomalyData' = <<>>
    /\ ws' = "connecting"
    /\ wsSent' = NothingSent
    /\ subIngested' = <<>>
    /\ nSetups' = nSetups + 1
    /\ UNCHANGED <<isPaused, playbackSpeed, wsConnected, timers, arrivals, nAdvances>>

\* setupWebSocket(), given what its caller leaves in chartData, isLiveMode,
\* currentCaseId and availableCases
SetupWebSocket(chart, live, caseId, cases) ==
    /\ chartData' = chart
    /\ symbolName' = IF live THEN "MOCK_LIVE_STREAM" ELSE SymbolOf(caseId, cases)
    /\ ChartBoardFlush(chart, IF live THEN "MOCK_LIVE_STREAM" ELSE SymbolOf(caseId, cases))
    \* if (ws) ws.close(): the close event of an unclosed socket comes later
    /\ closing' = IF ws \in {"connecting", "open"} THEN closing + 1 ELSE closing
    /\ highlightedAnomalyIndex' = Null
    /\ highlightedFeedIndex' = Null
    /\ highlightFor' = NoHighlight
    /\ isPaused' = FALSE
    /\ playbackSpeed' = 2
    /\ tickCounter' = 0
    /\ anomalyData' = <<>>
    \* ws = new WebSocket(wsUrl): nothing has been sent on it
    /\ ws' = "connecting"
    /\ wsSent' = NothingSent
    /\ subIngested' = <<>>
    /\ nSetups' = nSetups + 1
    /\ UNCHANGED <<wsConnected, timers, arrivals, nAdvances>>

\* onMounted: loadAvailableCases() resolves with the case list `cases` (empty
\* when the request fails), then setupWebSocket() if a case is selected
MountLoaded(cases) ==
    /\ mountPending
    /\ nSetups < MaxSetups
    /\ mountPending' = FALSE
    /\ availableCases' = cases
    /\ LET chosen == IF Len(cases) > 0 /\ currentCaseId = ""
                     THEN cases[1]
                     ELSE currentCaseId
       IN  /\ currentCaseId' = chosen
           /\ IF chosen # ""
              THEN SetupWebSocket(chartData, isLiveMode, chosen, cases)
              ELSE UNCHANGED <<chartData, anomalyData, tickCounter,
                               symbolName, chartApplied, watchedLen, overlays,
                               markDebounceTimer,
                               highlightedAnomalyIndex, highlightedFeedIndex,
                               isPaused, playbackSpeed, ws, closing, wsConnected,
                               timers, arrivals, subIngested,
                               nSetups, nAdvances, wsSent, highlightFor>>
    /\ UNCHANGED <<isLiveMode, clockVars, cityVars>>

\* setMode(toLive)
SetMode(toLive) ==
    /\ isLiveMode # toLive
    /\ nSetups < MaxSetups
    /\ isLiveMode' = toLive
    /\ SetupWebSocket(<<>>, toLive, currentCaseId, availableCases)
    /\ UNCHANGED <<currentCaseId, availableCases, mountPending, clockVars, cityVars>>

\* the case <select> changes to c (v-model), then switchCase()
SwitchCase(c) ==
    /\ ~isLiveMode
    /\ \E i \in DOMAIN availableCases : availableCases[i] = c
    /\ c # currentCaseId
    /\ nSetups < MaxSetups
    /\ currentCaseId' = c
    /\ SetupWebSocket(<<>>, isLiveMode, c, availableCases)
    /\ UNCHANGED <<isLiveMode, availableCases, mountPending, clockVars, cityVars>>

\* ws.onopen of the current socket
WsOpen ==
    /\ ws = "connecting"
    /\ ws' = "open"
    /\ wsConnected' = TRUE
    /\ UNCHANGED <<chartData, anomalyData, tickCounter, highlightedAnomalyIndex,
                   highlightedFeedIndex, isPaused, playbackSpeed, isLiveMode,
                   currentCaseId, availableCases, closing, mountPending, timers,
                   arrivals, subIngested, nSetups, nAdvances, symbolName,
                   chartApplied, watchedLen, overlays,
                   markDebounceTimer, wsSent, highlightFor, clockVars, cityVars>>

\* ws.onclose of the current socket (the server or the network ends it)
WsClose ==
    /\ ws \in {"connecting", "open"}
    /\ ws' = "closed"
    /\ wsConnected' = FALSE
    /\ UNCHANGED <<chartData, anomalyData, tickCounter, highlightedAnomalyIndex,
                   highlightedFeedIndex, isPaused, playbackSpeed, isLiveMode,
                   currentCaseId, availableCases, closing, mountPending, timers,
                   arrivals, subIngested, nSetups, nAdvances, symbolName,
                   chartApplied, watchedLen, overlays,
                   markDebounceTimer, wsSent, highlightFor, clockVars, cityVars>>

\* ws.onclose of a socket that setupWebSocket() closed
OldWsClose ==
    /\ closing > 0
    /\ closing' = closing - 1
    /\ wsConnected' = FALSE
    /\ UNCHANGED <<chartData, anomalyData, tickCounter, highlightedAnomalyIndex,
                   highlightedFeedIndex, isPaused, playbackSpeed, isLiveMode,
                   currentCaseId, availableCases, ws, mountPending, timers,
                   arrivals, subIngested, nSetups, nAdvances, symbolName,
                   chartApplied, watchedLen, overlays,
                   markDebounceTimer, wsSent, highlightFor, clockVars, cityVars>>

\* the tick built from a parsed object: newTick._uid = `tick-${tickCounter++}`
\* (arr is its arrival number, a history field)
NewTick(rec) ==
    [uid |-> tickCounter, arr |-> arrivals + 1,
     hasAnomaly |-> rec.hasAnomaly, anomalyDetails |-> rec.anomalyDetails]

\* FeedsSubstream testing the anomaly flag alone
FeedsSubstream_FlagOnly(tick) == tick.hasAnomaly

\* if (newTick.hasAnomaly && newTick.anomalyDetails)
FeedsSubstream(tick) == tick.hasAnomaly /\ tick.anomalyDetails

\* JSON.parse(event.data) returns
Parses(rec) == rec.kind # "garbage"

\* AcceptsUid for every parsed value
AcceptsUid_Always(rec) == TRUE

\* newTick._uid = ... succeeds: the parsed value is an object (in the strict
\* code of a module the assignment throws for null and for a primitive)
AcceptsUid(rec) == rec.kind = "object"

\* ws.onmessage of the current socket (a socket delivers messages only while OPEN)
OnMessage(rec) ==
    /\ ws = "open"
    /\ tickCounter < MaxTicks
    /\ arrivals < MaxTicks
    /\ CASE ~Parses(rec) ->
              \* JSON.parse throws; caught
              UNCHANGED <<chartData, anomalyData, tickCounter, arrivals, subIngested,
                          chartApplied, watchedLen, overlays, markDebounceTimer>>
         [] Parses(rec) /\ ~AcceptsUid(rec) ->
              \* the template literal is evaluated, then the assignment to a
              \* property of null or of a primitive throws; caught
              /\ tickCounter' = tickCounter + 1
              /\ UNCHANGED <<chartData, anomalyData, arrivals, subIngested,
                             chartApplied, watchedLen, overlays, markDebounceTimer>>
         [] Parses(rec) /\ AcceptsUid(rec) ->
              LET newTick == NewTick(rec)
              IN  /\ tickCounter' = tickCounter + 1
                  /\ chartData' = PushBounded(chartData, newTick, MaxChartLen)
                  /\ anomalyData' = IF FeedsSubstream(newTick)
                                    THEN PushBounded(anomalyData, newTick, MaxAnomalyLen)
                                    ELSE anomalyData
                  /\ arrivals' = arrivals + 1
                  /\ subIngested' = Append(subIngested, newTick)
                  /\ ChartBoardFlush(PushBounded(chartData, newTick, MaxChartLen),
                                     symbolName)
    /\ UNCHANGED <<highlightedAnomalyIndex, highlightedFeedIndex, isPaused,
                   playbackSpeed, isLiveMode, currentCaseId, availableCases, ws,
                   closing, wsConnected, mountPending, timers, symbolName,
                   nSetups, nAdvances, wsSent, highlightFor, clockVars, cityVars>>

\* onAnomalyClickFromChart: the feed index of the tick at window index dataIndex
FeedIndexOfChart(dataIndex) ==
    IF dataIndex >= 0 /\ dataIndex < Len(chartData)
    THEN FindIndexByUid(anomalyData, chartData[dataIndex + 1].uid)
    ELSE NotFound

\* onCardClickFromFeed: the window index of the tick at substream index feedIndex
ChartIndexOfFeed(feedIndex) ==
    IF feedIndex >= 0 /\ feedIndex < Len(anomalyData)
    THEN FindIndexByUid(chartData, anomalyData[feedIndex + 1].uid)
    ELSE NotFound

\* setTimeout(() => { <view's highlight> = null }, 3000): `left` is the time
\* left before it runs, `sub` the subscription it was created in (a history field)
SetTimeout(view) ==
    Append(timers, [view |-> view, left |-> HighlightTtl, sub |-> nSetups])

\* onAnomalyClickFromChart(dataIndex)
OnAnomalyClickFromChart(dataIndex) ==
    /\ Len(timers) < MaxTimers
    /\ LET feedIdx == FeedIndexOfChart(dataIndex)
       IN  IF feedIdx >= 0
           THEN /\ highlightedFeedIndex' = feedIdx
                /\ timers' = SetTimeout("feed")
                /\ highlightFor' = [highlightFor EXCEPT !.feed = chartData[dataIndex + 1].arr]
           ELSE UNCHANGED <<highlightedFeedIndex, timers, highlightFor>>
    /\ UNCHANGED <<chartData, anomalyData, tickCounter, highlightedAnomalyIndex,
                   isPaused, playbackSpeed, isLiveMode, currentCaseId,
                   availableCases, ws, closing, wsConnected, mountPending,
                   arrivals, subIngested, nSetups, nAdvances, symbolName,
                   chartApplied, watchedLen, overlays,
                   markDebounceTimer, wsSent, clockVars, cityVars>>

\* onCardClickFromFeed(feedIndex)
OnCardClickFromFeed(feedIndex) ==
    /\ Len(timers) < MaxTimers
    /\ LET chartIdx == ChartIndexOfFeed(feedIndex)
       IN  IF chartIdx >= 0
           THEN /\ highlightedAnomalyIndex' = chartIdx
                /\ timers' = SetTimeout("chart")
                /\ highlightFor' = [highlightFor EXCEPT !.chart = anomalyData[feedIndex + 1].arr]
           ELSE UNCHANGED <<highlightedAnomalyIndex, timers, highlightFor>>
    /\ UNCHANGED <<chartData, anomalyData, tickCounter, highlightedFeedIndex,
                   isPaused, playbackSpeed, isLiveMode, currentCaseId,
                   availableCases, ws, closing, wsConnected, mountPending,
                   arrivals, subIngested, nSetups, nAdvances, symbolName,
                   chartApplied, watchedLen, overlays,
                   markDebounceTimer, wsSent, clockVars, cityVars>>

\* AttributionFeed: a click on the card at position reversedIdx of the feed
HandleCardClick(reversedIdx) ==
    /\ reversedIdx < Len(reversedData)
    /\ OnCardClickFromFeed(getOriginalIndex(reversedIdx))

\* the timer clock advances by d ms and every timer due by then runs
AdvanceClock(d) ==
    /\ nAdvances < MaxAdvances
    /\ nAdvances' = nAdvances + 1
    /\ LET due(view) == \E i \in DOMAIN timers :
                            timers[i].view = view /\ timers[i].left <= d
           pending == SelectSeq(timers, LAMBDA t : t.left > d)
       IN  /\ highlightedFeedIndex' =
                  IF due("feed") THEN Null ELSE highlightedFeedIndex
           /\ highlightedAnomalyIndex' =
                  IF due("chart") THEN Null ELSE highlightedAnomalyIndex
           /\ highlightFor' = [feed |-> IF due("feed") THEN Null ELSE highlightFor.feed,
                               chart |-> IF due("chart") THEN Null ELSE highlightFor.chart]
           /\ timers' = [i \in DOMAIN pending |->
                             [pending[i] EXCEPT !.left = pending[i].left - d]]
    /\ UNCHANGED <<chartData, anomalyData, tickCounter, isPaused, playbackSpeed,
                   isLiveMode, currentCaseId, availableCases, ws, closing,
                   wsConnected, mountPending, arrivals, subIngested, nSetups,
                   symbolName, chartApplied, watchedLen, overlays,
                   markDebounceTimer, wsSent, clockVars, cityVars>>

\* the timer of markAnomaliesDebounced runs markAnomaliesIncremental()
MarkAnomaliesDebounced ==
    /\ markDebounceTimer
    /\ markDebounceTimer' = FALSE
    /\ overlays' = MarkAnomaliesIncremental(chartData, overlays)
    /\ UNCHANGED <<chartData, anomalyData, tickCounter, highlightedAnomalyIndex,
                   highlightedFeedIndex, isPaused, playbackSpeed, isLiveMode,
                   currentCaseId, availableCases, ws, closing, wsConnected,
                   mountPending, timers, arrivals, subIngested, nSetups, nAdvances,
                   symbolName, chartApplied, watchedLen, wsSent, highlightFor,
                   clockVars, cityVars>>

\* a click on the marker that reports dataIdx: its onClick emits 'anomaly-click'
MarkerClick(dataIdx) ==
    /\ \E o \in overlays : o.dataIdx = dataIdx
    /\ OnAnomalyClickFromChart(dataIdx)

\* the options of the speed <select>: 0.5x, 1x, 2x, 5x
PlaybackSpeeds == {1, 2, 4, 10}

\* sendControl(action, value): what the current socket has been sent afterwards
SendControl(action, value) ==
    IF ws = "open"
    THEN IF action = "set_speed"
         THEN [wsSent EXCEPT !.speed = value]
         ELSE [wsSent EXCEPT !.replay = action]
    ELSE wsSent

\* togglePause(): the pause button of the replay controls (v-show="!isLiveMode")
TogglePause ==
    /\ ~isLiveMode
    /\ isPaused' = ~isPaused
    /\ wsSent' = SendControl(IF ~isPaused THEN "pause" ELSE "resume", Null)
    /\ UNCHANGED <<chartData, anomalyData, tickCounter, highlightedAnomalyIndex,
                   highlightedFeedIndex, playbackSpeed, isLiveMode, currentCaseId,
                   availableCases, ws, closing, wsConnected, mountPending, timers,
                   arrivals, subIngested, nSetups, nAdvances, symbolName,
                   chartApplied, watchedLen, overlays,
                   markDebounceTimer, highlightFor, clockVars, cityVars>>

\* the speed <select> changes to `speed` (v-model), then changeSpeed()
ChangeSpeed(speed) ==
    /\ ~isLiveMode
    /\ speed # playbackSpeed
    /\ playbackSpeed' = speed
    /\ wsSent' = SendControl("set_speed", speed)
    /\ UNCHANGED <<chartData, anomalyData, tickCounter, highlightedAnomalyIndex,
                   highlightedFeedIndex, isPaused, isLiveMode, currentCaseId,
                   availableCases, ws, closing, wsConnected, mountPending, timers,
                   arrivals, subIngested, nSetups, nAdvances, symbolName,
                   chartApplied, watchedLen, overlays,
                   markDebounceTimer, highlightFor, clockVars, cityVars>>

InitStream ==
    /\ chartData = <<>>
    /\ anomalyData = <<>>
    /\ tickCounter = 0
    /\ highlightedAnomalyIndex = Null
    /\ highlightedFeedIndex = Null
    /\ isPaused = FALSE
    /\ playbackSpeed = 2
    /\ isLiveMode = FALSE
    /\ currentCaseId = ""
    /\ availableCases = <<>>
    /\ ws = "none"
    /\ closing = 0
    /\ wsConnected = FALSE
    /\ mountPending = TRUE
    /\ timers = <<>>
    /\ symbolName = ""
    /\ chartApplied = <<>>
    /\ watchedLen = 0
    /\ overlays = {}
    /\ markDebounceTimer = FALSE
    /\ wsSent = NothingSent
    /\ highlightFor = NoHighlight
    /\ arrivals = 0
    /\ subIngested = <<>>
    /\ nSetups = 0
    /\ nAdvances = 0

InitClock ==
    /\ currentTime = 0
    /\ timeRange = [min |-> 0, max |-> 0]
    /\ isPlaying = TRUE
    /\ animationSpeed = 2
    /\ trajectories = <<>>
    /\ metrics = [active |-> <<>>, cumulative |-> <<>>, maxActive |-> 1]
    /\ dashboard = [active |-> 0, cumulative |-> 0, loadPct |-> 0]
    /\ loadPending = TRUE
    /\ metricsPending = FALSE
    \* the [isPlaying, animate] effect of the first render has requested a frame
    /\ rafCallbacks = <<[speed |-> 2, latest |-> TRUE]>>

\* three of the six CITIES
Cities == {"shenzhen", "beijing", "shanghai"}

\* the initial effect has called loadCityData("shenzhen")
InitCity ==
    /\ currentCity = "shenzhen"
    /\ dataCache = {}
    /\ cityShown = ""
    /\ isLoadingCity = TRUE
    /\ cityFetches = [c \in Cities |-> IF c = "shenzhen" THEN 1 ELSE 0]
    /\ fetchCount = [c \in Cities |-> IF c = "shenzhen" THEN 1 ELSE 0]
    /\ failedCities = {}
    /\ nJumps = 0

Init == InitStream /\ InitClock /\ InitCity

\* subscriptions and ingestion
NextIngest ==
    \/ \E cases \in CaseLists : MountLoaded(cases)
    \/ \E toLive \in BOOLEAN : SetMode(toLive)
    \/ \E c \in Cases : SwitchCase(c)
    \/ WsOpen
    \/ \E rec \in Records : OnMessage(rec)

SpecIngest == Init /\ [][NextIngest]_vars

\* subscriptions, ingestion, the cross-view clicks and the expiry timers
NextStream ==
    \/ \E cases \in CaseLists : MountLoaded(cases)
    \/ \E toLive \in BOOLEAN : SetMode(toLive)
    \/ \E c \in Cases : SwitchCase(c)
    \/ WsOpen
    \/ \E rec \in PlainRecords : OnMessage(rec)
    \/ \E i \in 0..MaxChartLen : OnAnomalyClickFromChart(i)
    \/ \E r \in 0..(MaxAnomalyLen - 1) : HandleCardClick(r)
    \/ \E d \in ClockSteps : AdvanceClock(d)

SpecStream == Init /\ [][NextStream]_vars

\* subscriptions, the sockets' events, ingestion and the replay controls
NextControl ==
    \/ \E cases \in CaseLists : MountLoaded(cases)
    \/ \E toLive \in BOOLEAN : SetMode(toLive)
    \/ \E c \in Cases : SwitchCase(c)
    \/ WsOpen
    \/ WsClose
    \/ OldWsClose
    \/ \E rec \in PlainRecords : OnMessage(rec)
    \/ TogglePause
    \/ \E speed \in PlaybackSpeeds : ChangeSpeed(speed)

SpecControl == Init /\ [][NextControl]_vars

\* subscriptions, ingestion, the chart's markers and the clicks on them
NextMarkers ==
    \/ \E cases \in CaseLists : MountLoaded(cases)
    \/ \E toLive \in BOOLEAN : SetMode(toLive)
    \/ \E c \in Cases : SwitchCase(c)
    \/ WsOpen
    \/ \E rec \in PlainRecords : OnMessage(rec)
    \/ MarkAnomaliesDebounced
    \/ \E i \in 0..(MaxChartLen - 1) : MarkerClick(i)
    \/ \E d \in ClockSteps : AdvanceClock(d)

SpecMarkers == Init /\ [][NextMarkers]_vars

----------------------------------------------------------------------------
(* The replay clock and the metrics table (React part of MapContainer.tsx) *)
(*                                                                         *)
(* Times are fixed-point: one time unit is 0.008 s, the frame advance at   *)
(* speed 0.5x, so every value the clock takes is a whole number of units.  *)

\* time units per second
TimeScale == 125
\* ANIMATION_SPEED = 0.016 s per frame, in time units
ANIMATION_SPEED == 2
\* the speed buttons [0.5, 1, 2, 1024], in units of 0.5x
Speeds == {1, 2, 4, 2048}
\* width of the progress bar, in pixels
BarWidth == 4
\* number of trajectories of a data set
MaxTraj == 2

Min(a, b) == IF a < b THEN a ELSE b
Max(a, b) == IF a > b THEN a ELSE b

\* Math.floor and Math.ceil of a time, in seconds
Floor(t) == t \div TimeScale
Ceil(t) == -((-t) \div TimeScale)

\* length of an array held as a function on 0..(n - 1)
ArrLen(a) == Cardinality(DOMAIN a)

\* the loop body of the precomputation with the end second excluded
AddTrajectory_ExclusiveEnd(acc, ts, maxSec) ==
    IF Len(ts) = 0 THEN acc
    ELSE LET startSec == Max(0, Floor(ts[1]))
             endSec == Min(maxSec, Ceil(ts[Len(ts)]))
         IN  [active |-> [s \in 0..maxSec |->
                            IF startSec <= s /\ s < endSec
                            THEN acc.active[s] + 1 ELSE acc.active[s]],
              cum |-> IF startSec <= maxSec
                      THEN [acc.cum EXCEPT ![startSec] = @ + 1]
                      ELSE acc.cum]

\* one iteration of `for (const t of trajectories)`: ts is t.timestamps
AddTrajectory(acc, ts, maxSec) ==
    IF Len(ts) = 0 THEN acc
    ELSE LET startSec == Max(0, Floor(ts[1]))
             endSec == Min(maxSec, Ceil(ts[Len(ts)]))
         IN  [active |-> [s \in 0..maxSec |->
                            IF startSec <= s /\ s <= endSec
                            THEN acc.active[s] + 1 ELSE acc.active[s]],
              cum |-> IF startSec <= maxSec
                      THEN [acc.cum EXCEPT ![startSec] = @ + 1]
                      ELSE acc.cum]

\* the loop that keeps the counts of trajectory n only
Expand_LastOnly(trajs, n, maxSec) ==
    LET zeroed == [active |-> [s \in 0..maxSec |-> 0], cum |-> [s \in 0..maxSec |-> 0]]
    IN  IF n = 0 THEN zeroed ELSE AddTrajectory(zeroed, trajs[n], maxSec)

\* the loop over the trajectories, from zeroed Int32Arrays of maxSec + 1 entries
RECURSIVE Expand(_, _, _)
Expand(trajs, n, maxSec) ==
    IF n = 0
    THEN [active |-> [s \in 0..maxSec |-> 0], cum |-> [s \in 0..maxSec |-> 0]]
    ELSE AddTrajectory(Expand(trajs, n - 1, maxSec), trajs[n], maxSec)

\* currentCum that keeps nothing from the earlier iterations
RunningCum_NoCarry(cum, i) == IF i < 0 THEN 0 ELSE cum[i]

\* currentCum after the iterations 0..i of the second loop
RECURSIVE RunningCum(_, _)
RunningCum(cum, i) == IF i < 0 THEN 0 ELSE RunningCum(cum, i - 1) + cum[i]

\* maxActive that keeps the count of the last second only
RunningMax_LastSecond(active, i) == IF i < 0 THEN 0 ELSE active[i]

\* maxActive after the iterations 0..i of the second loop
RECURSIVE RunningMax(_, _)
RunningMax(active, i) ==
    IF i < 0 THEN 0
    ELSE LET m == RunningMax(active, i - 1)
         IN  IF active[i] > m THEN active[i] ELSE m

\* the metrics precomputation, past its early return
BuildMetrics(trajs, max) ==
    LET maxSec == Ceil(max)
        raw == Expand(trajs, Len(trajs), maxSec)
        maxActive == RunningMax(raw.active, maxSec)
    IN  [active |-> raw.active,
         cumulative |-> [i \in 0..maxSec |-> RunningCum(raw.cum, i)],
         maxActive |-> IF maxActive = 0 THEN 1 ELSE maxActive]

\* Math.round((activeCount / maxActive) * 100)
RoundPct(activeCount, maxActive) == (200 * activeCount + maxActive) \div (2 * maxActive)

\* updateDashboardDOM(time): the texts of the dashboard afterwards
UpdateDashboardDOM(time) ==
    LET sec == Min(Floor(time), ArrLen(metrics.active) - 1)
    IN  IF sec >= 0
        THEN [active |-> metrics.active[sec],
              cumulative |-> metrics.cumulative[sec],
              loadPct |-> Min(100, RoundPct(metrics.active[sec], metrics.maxActive))]
        ELSE dashboard

\* the initial effect's fetch resolves with `data` (PreprocessedData)
LoadTrajectories(data) ==
    /\ loadPending
    /\ loadPending' = FALSE
    /\ timeRange' = data.timeRange
    /\ trajectories' = data.trajectories
    /\ currentTime' = 0
    \* setTrajectories re-renders, which schedules the [trajectories] effect
    /\ metricsPending' = TRUE
    /\ UNCHANGED <<isPlaying, animationSpeed, metrics, dashboard, rafCallbacks,
                   streamVars, cityVars>>

\* the fetch fails or answers !ok
LoadFailed ==
    /\ loadPending
    /\ loadPending' = FALSE
    /\ UNCHANGED <<currentTime, timeRange, isPlaying, animationSpeed, trajectories,
                   metrics, dashboard, metricsPending, rafCallbacks,
                   streamVars, cityVars>>

\* the [trajectories] effect
MetricsEffect ==
    /\ metricsPending
    /\ metricsPending' = FALSE
    /\ metrics' = IF Len(trajectories) = 0 \/ timeRange.max <= 0
                  THEN metrics
                  ELSE BuildMetrics(trajectories, timeRange.max)
    /\ UNCHANGED <<currentTime, timeRange, isPlaying, animationSpeed, trajectories,
                   dashboard, loadPending, rafCallbacks, streamVars, cityVars>>

\* currentTimeRef.current + ANIMATION_SPEED * animationSpeed
Advanced(time, speed) == time + (ANIMATION_SPEED * speed) \div 2

\* animFrameRef.current = requestAnimationFrame(animate), animate having
\* captured `speed`: the queue of pending callbacks afterwards
RequestAnimationFrame(queue, speed) ==
    Append([i \in DOMAIN queue |-> [queue[i] EXCEPT !.latest = FALSE]],
           [speed |-> speed, latest |-> TRUE])

\* cancelAnimationFrame that cancels nothing
CancelAnimationFrame_Nothing(queue) == queue

\* cancelAnimationFrame(animFrameRef.current): the queue of pending callbacks
\* afterwards (nothing is removed when that callback has already run)
CancelAnimationFrame(queue) == SelectSeq(queue, LAMBDA cb : ~cb.latest)

\* a callback is pending
rafPending == rafCallbacks # <<>>

\* the animationSpeed captured by the callback that runs next
rafSpeed == Head(rafCallbacks).speed

\* animate() whose idle branch returns without requesting the next frame
AnimateFrame_IdleStops ==
    /\ rafPending
    /\ IF timeRange.max = 0
       THEN /\ rafCallbacks' = Tail(rafCallbacks)
            /\ UNCHANGED <<currentTime, dashboard>>
       ELSE LET next == IF Advanced(currentTime, rafSpeed) > timeRange.max
                        THEN 0
                        ELSE Advanced(currentTime, rafSpeed)
            IN  /\ currentTime' = next
                /\ dashboard' = UpdateDashboardDOM(next)
                /\ rafCallbacks' = RequestAnimationFrame(Tail(rafCallbacks), rafSpeed)
    /\ UNCHANGED <<timeRange, isPlaying, animationSpeed, trajectories, metrics,
                   loadPending, metricsPending, streamVars, cityVars>>

\* animate(): the pending callback that was requested first runs, and requests
\* the next frame for itself
AnimateFrame ==
    /\ rafPending
    /\ IF timeRange.max = 0
       THEN UNCHANGED <<currentTime, dashboard>>
       ELSE LET next == IF Advanced(currentTime, rafSpeed) > timeRange.max
                        THEN 0
                        ELSE Advanced(currentTime, rafSpeed)
            IN  /\ currentTime' = next
                /\ dashboard' = UpdateDashboardDOM(next)
    /\ rafCallbacks' = RequestAnimationFrame(Tail(rafCallbacks), rafSpeed)
    /\ UNCHANGED <<timeRange, isPlaying, animationSpeed, trajectories, metrics,
                   loadPending, metricsPending, streamVars, cityVars>>

\* the [isPlaying, animate] effect runs again with the new isPlaying and the
\* animate that captured `speed`: its cleanup cancels the frame held by
\* animFrameRef.current, then a frame is requested when playing (a click is a
\* discrete event: the render and its effects are flushed before any frame)
PlayEffect(playing, speed) ==
    IF playing
    THEN RequestAnimationFrame(CancelAnimationFrame(rafCallbacks), speed)
    ELSE CancelAnimationFrame(rafCallbacks)

\* the play/pause button that leaves the requested frame pending
TogglePlay_KeepsFrame ==
    /\ isPlaying' = ~isPlaying
    /\ rafCallbacks' = IF rafPending THEN rafCallbacks
                       ELSE RequestAnimationFrame(rafCallbacks, animationSpeed)
    /\ UNCHANGED <<currentTime, timeRange, animationSpeed, trajectories, metrics,
                   dashboard, loadPending, metricsPending, streamVars, cityVars>>

\* the play/pause button: setIsPlaying(!isPlaying)
TogglePlay ==
    /\ isPlaying' = ~isPlaying
    /\ rafCallbacks' = PlayEffect(~isPlaying, animationSpeed)
    /\ UNCHANGED <<currentTime, timeRange, animationSpeed, trajectories, metrics,
                   dashboard, loadPending, metricsPending, streamVars, cityVars>>

\* a speed button whose pending frame keeps the animate of the old speed
SetAnimationSpeed_NoReschedule(speed) ==
    /\ speed # animationSpeed
    /\ animationSpeed' = speed
    /\ UNCHANGED <<currentTime, timeRange, isPlaying, trajectories, metrics,
                   dashboard, loadPending, metricsPending, rafCallbacks, streamVars, cityVars>>

\* a speed button: setAnimationSpeed(speed); animate is rebuilt
SetAnimationSpeed(speed) ==
    /\ speed # animationSpeed
    /\ animationSpeed' = speed
    /\ rafCallbacks' = PlayEffect(isPlaying, speed)
    /\ UNCHANGED <<currentTime, timeRange, isPlaying, trajectories, metrics,
                   dashboard, loadPending, metricsPending, streamVars, cityVars>>

\* pct * timeRangeRef.current.max for a click offsetX pixels into the bar
SeekTarget(offsetX) == (offsetX * timeRange.max) \div BarWidth

\* handleProgressClick(e), with offsetX = e.clientX - rect.left
HandleProgressClick(offsetX) ==
    /\ currentTime' = SeekTarget(offsetX)
    /\ dashboard' = UpdateDashboardDOM(SeekTarget(offsetX))
    /\ UNCHANGED <<timeRange, isPlaying, animationSpeed, trajectories, metrics,
                   loadPending, metricsPending, rafCallbacks, streamVars, cityVars>>

\* timestamps of the trajectories of the data sets: the grid has times between
\* whole seconds, before 0 and after the extent
TimeGrid == {-60, 0, 60, 125, 190, 375}
Trajectory == {<<>>} \cup {<<a, b>> : a, b \in TimeGrid}
OrderedTrajectory == {ts \in Trajectory : Len(ts) = 0 \/ ts[1] <= ts[2]}
TrajectoryLists ==
    UNION {[1..n -> OrderedTrajectory] : n \in 0..MaxTraj}

\* the data sets of the table's specification
TableData ==
    [timeRange : {[min |-> 0, max |-> 250], [min |-> 0, max |-> 300]},
     trajectories : TrajectoryLists]

\* the data sets of the clock's specification: no data, an extent from 0, an
\* extent that starts after 0
ClockData ==
    [timeRange : {[min |-> 0, max |-> 0], [min |-> 0, max |-> 260],
                  [min |-> 120, max |-> 260]},
     trajectories : {<<>>, <<<<0, 125>>, <<60, 260>>>>}]

\* the replay clock
NextClock ==
    \/ \E data \in ClockData : LoadTrajectories(data)
    \/ LoadFailed
    \/ MetricsEffect
    \/ AnimateFrame
    \/ TogglePlay
    \/ \E speed \in Speeds : SetAnimationSpeed(speed)
    \/ \E offsetX \in 0..BarWidth : HandleProgressClick(offsetX)

SpecClock == Init /\ [][NextClock]_vars

\* the metrics precomputation over the data sets
NextTable ==
    \/ \E data \in TableData : LoadTrajectories(data)
    \/ MetricsEffect

SpecTable == Init /\ [][NextTable]_vars

----------------------------------------------------------------------------
(* The city loader (React part of MapContainer.tsx) *)

\* number of handleCityJump() calls
MaxJumps == 3

\* loadCityData(city), up to its await
LoadCityData(city) ==
    IF city \in dataCache
    THEN /\ cityShown' = city
         /\ UNCHANGED <<isLoadingCity, cityFetches, fetchCount>>
    ELSE /\ isLoadingCity' = TRUE
         /\ cityFetches' = [cityFetches EXCEPT ![city] = @ + 1]
         /\ fetchCount' = [fetchCount EXCEPT ![city] = @ + 1]
         /\ UNCHANGED cityShown

\* handleCityJump(city): a click on an entry of the city menu
HandleCityJump(city) ==
    /\ nJumps < MaxJumps
    /\ nJumps' = nJumps + 1
    /\ currentCity' = city
    /\ LoadCityData(city)
    /\ UNCHANGED <<dataCache, failedCities, streamVars, clockVars>>

\* loadCityData(city) after its await: the three fetches have answered
CityFetched(city) ==
    /\ cityFetches[city] > 0
    /\ cityFetches' = [cityFetches EXCEPT ![city] = @ - 1]
    /\ dataCache' = dataCache \cup {city}
    /\ cityShown' = city
    /\ isLoadingCity' = FALSE
    /\ UNCHANGED <<currentCity, fetchCount, failedCities, nJumps, streamVars, clockVars>>

\* loadCityData(city) after its await: a fetch has been rejected
CityFetchFailed(city) ==
    /\ cityFetches[city] > 0
    /\ cityFetches' = [cityFetches EXCEPT ![city] = @ - 1]
    /\ failedCities' = failedCities \cup {city}
    /\ isLoadingCity' = FALSE
    /\ UNCHANGED <<currentCity, dataCache, cityShown, fetchCount, nJumps,
                   streamVars, clockVars>>

\* the city loader
NextCity ==
    \/ \E city \in Cities : HandleCityJump(city)
    \/ \E city \in Cities : CityFetched(city)
    \/ \E city \in Cities : CityFetchFailed(city)

SpecCity == Init /\ [][NextCity]_vars

----------------------------------------------------------------------------
(* Claims about the stream ingestor and the cross-view lookups *)

\* the last n elements of s
LastN(s, n) == SubSeq(s, Len(s) - n + 1, Len(s))

\* the ticks of this subscription that carry the anomaly flag
subFlagged == SelectSeq(subIngested, LAMBDA t : t.hasAnomaly)

\* C1: after every handler has returned, the timeline window holds at most
\* its capacity of ticks and the anomaly substream at most its own.
Inv_C1_Bounded ==
    /\ Len(chartData) <= MaxChartLen
    /\ Len(anomalyData) <= MaxAnomalyLen

\* both views are full and both have evicted in this subscription
Wit_C1_BothEvicted ==
    /\ Len(chartData) = MaxChartLen
    /\ Len(anomalyData) = MaxAnomalyLen
    /\ Len(subIngested) > MaxChartLen
    /\ Len(subFlagged) > MaxAnomalyLen

\* C2 (as claimed): after k ingests since the subscription started, the window
\* is exactly the last min(k, N) ticks ingested in it, in arrival order.
Claim_C2_WindowIsSubscriptionSuffix ==
    chartData = LastN(subIngested, Min(Len(subIngested), MaxChartLen))

\* C3 (as claimed): the substream is exactly the last min(a, M) ticks of the
\* subscription that carry the anomaly flag, a being their number.
Claim_C3_SubstreamIsFlaggedSuffix ==
    anomalyData = LastN(subFlagged, Min(Len(subFlagged), MaxAnomalyLen))

\* the ticks of this subscription that carry the anomaly flag and an
\* attribution payload
subDetailed == SelectSeq(subIngested, LAMBDA t : t.hasAnomaly /\ t.anomalyDetails)

\* C3 (amended): the substream is exactly the last min(a, M) ticks of the
\* subscription that carry both the anomaly flag and an attribution payload,
\* a being their number; a flagged tick without payload enters the window only.
Inv_C3_SubstreamIsDetailedSuffix ==
    anomalyData = LastN(subDetailed, Min(Len(subDetailed), MaxAnomalyLen))

\* the substream has evicted, and the window shows a flagged tick without
\* payload that the substream does not hold
Wit_C3_FlaggedTickOutsideSubstream ==
    /\ Len(subDetailed) > MaxAnomalyLen
    /\ Len(anomalyData) = MaxAnomalyLen
    /\ \E i \in DOMAIN chartData :
          /\ chartData[i].hasAnomaly
          /\ ~chartData[i].anomalyDetails
          /\ \A j \in DOMAIN anomalyData : anomalyData[j].arr # chartData[i].arr

\* C4: for positions i < j of the anomaly substream, the tick at i was
\* ingested before the tick at j.
Inv_C4_SubstreamArrivalOrder ==
    \A i, j \in DOMAIN anomalyData :
        i < j => anomalyData[i].arr < anomalyData[j].arr

\* the substream holds two ticks, the older of which has left the window
Wit_C4_OlderEvictedFromWindow ==
    /\ Len(anomalyData) >= 2
    /\ Len(chartData) = MaxChartLen
    /\ \A i \in DOMAIN chartData : chartData[i].arr # anomalyData[1].arr

\* C5: for a tick present in both views, the chart click resolves its window
\* index to a substream index holding its id, and the click on the feed card
\* showing it resolves to a window index holding its id; a subscription that
\* filled the window and whose newest tick is the only anomaly locates it at
\* (last window index, substream index 0).
Inv_C5_LookupById ==
    /\ \A i \in 0..(Len(chartData) - 1) :
          (\E j \in DOMAIN anomalyData : anomalyData[j].uid = chartData[i + 1].uid)
          => /\ FeedIndexOfChart(i) >= 0
             /\ anomalyData[FeedIndexOfChart(i) + 1].uid = chartData[i + 1].uid
    /\ \A r \in 0..(Len(reversedData) - 1) :
          (\E i \in DOMAIN chartData : chartData[i].uid = reversedData[r + 1].uid)
          => LET c == ChartIndexOfFeed(getOriginalIndex(r))
             IN  /\ c >= 0
                 /\ chartData[c + 1].uid = reversedData[r + 1].uid
    /\ ( /\ Len(subIngested) >= MaxChartLen
         /\ Len(anomalyData) = 1
         /\ anomalyData[1] = chartData[Len(chartData)] )
       => /\ FeedIndexOfChart(MaxChartLen - 1) = 0
          /\ ChartIndexOfFeed(getOriginalIndex(0)) = MaxChartLen - 1

\* after evictions, both clicks have resolved a tick whose two indices differ
Wit_C5_ResolvedAfterEviction ==
    /\ Len(subIngested) > MaxChartLen
    /\ Len(anomalyData) = MaxAnomalyLen
    /\ highlightedFeedIndex = 1
    /\ highlightedAnomalyIndex >= 0
    /\ chartData[highlightedAnomalyIndex + 1].uid = anomalyData[1].uid
    /\ highlightedAnomalyIndex # 0

\* the highlight index of a view
HighlightOf(view) ==
    IF view = "feed" THEN highlightedFeedIndex ELSE highlightedAnomalyIndex

\* C6 (as claimed): a highlight created in the current subscription is
\* present until 2999 ms after its creation (while its timer is pending) and
\* absent from 3001 ms on (no highlight without a pending timer).
Claim_C6_HighlightLivesItsTtl ==
    /\ \A i \in DOMAIN timers :
          timers[i].sub = nSetups => HighlightOf(timers[i].view) # Null
    /\ \A v \in Views :
          HighlightOf(v) # Null
          => \E i \in DOMAIN timers : timers[i].view = v /\ timers[i].sub = nSetups

----------------------------------------------------------------------------
(* Claims about the replay clock and the metrics table *)

\* C7 (as claimed): min <= currentTime <= max in every reachable state of the
\* clock, whatever extent was loaded.
Claim_C7_TimeWithinExtent ==
    /\ timeRange.min <= currentTime
    /\ currentTime <= timeRange.max

\* C8 (as claimed): a frame executed with a known extent sets currentTime to
\* the advanced time, or to min when the advanced time exceeds max.
Claim_C8_FrameWrapsToMin ==
    [][(AnimateFrame /\ timeRange.max # 0)
       => currentTime' = IF Advanced(currentTime, rafSpeed) > timeRange.max
                         THEN timeRange.min
                         ELSE Advanced(currentTime, rafSpeed)]_vars

\* clamp(p, lo, hi)
Clamp(p, lo, hi) == IF p < lo THEN lo ELSE IF p > hi THEN hi ELSE p

\* C9 (as claimed): a seek to position p sets currentTime to clamp(p, min, max)
\* and the metrics shown right after are read at that clamped time.
Claim_C9_SeekClamps ==
    [][\A offsetX \in 0..BarWidth :
          HandleProgressClick(offsetX)
          => LET clamped == Clamp(SeekTarget(offsetX), timeRange.min, timeRange.max)
             IN  /\ currentTime' = clamped
                 /\ dashboard' = UpdateDashboardDOM(clamped)]_vars

\* the table of the loaded data set has been built
tableBuilt ==
    /\ ~loadPending
    /\ ~metricsPending
    /\ Len(trajectories) > 0
    /\ timeRange.max > 0

\* the entities that have timestamps
Entities == {i \in DOMAIN trajectories : Len(trajectories[i]) > 0}
StartOf(i) == trajectories[i][1]
EndOf(i) == trajectories[i][Len(trajectories[i])]

\* C10 (as claimed): for every whole second u in [0, ceil(max)], activeCount[u]
\* is the number of entities with start <= u <= end.
Claim_C10_ActiveCountsInstants ==
    tableBuilt
    => \A u \in 0..Ceil(timeRange.max) :
          metrics.active[u] =
              Cardinality({i \in Entities : /\ StartOf(i) <= u * TimeScale
                                            /\ u * TimeScale <= EndOf(i)})

\* C10 (amended): the table has ceil(max) + 1 entries and, for every whole
\* second u in [0, ceil(max)], activeCount[u] is the number of entities with
\* floor(start) <= u <= ceil(end): the interval is widened to whole seconds.
Inv_C10_ActiveCountsWholeSeconds ==
    tableBuilt
    => /\ ArrLen(metrics.active) = Ceil(timeRange.max) + 1
       /\ \A u \in 0..Ceil(timeRange.max) :
             metrics.active[u] =
                 Cardinality({i \in Entities : /\ Floor(StartOf(i)) <= u
                                               /\ u <= Ceil(EndOf(i))})

\* a table built from two entities, one of which starts and ends between whole
\* seconds and is counted in the seconds around its interval
Wit_C10_FractionalInterval ==
    /\ tableBuilt
    /\ Cardinality(Entities) = 2
    /\ \E i \in Entities :
          /\ StartOf(i) = 60
          /\ EndOf(i) = 190
    /\ metrics.active[0] >= 1
    /\ metrics.active[2] = 2

\* C11 (as claimed): cumulativeCount[u] is the number of entities with
\* start <= u, is non-decreasing, and at the last index ceil(max) it is the
\* number of entities supplied.
Claim_C11_CumulativeCountsStarts ==
    tableBuilt
    => /\ \A u \in 0..Ceil(timeRange.max) :
             metrics.cumulative[u] =
                 Cardinality({i \in Entities : StartOf(i) <= u * TimeScale})
       /\ \A u \in 1..Ceil(timeRange.max) :
             metrics.cumulative[u - 1] <= metrics.cumulative[u]
       /\ metrics.cumulative[Ceil(timeRange.max)] = Len(trajectories)

\* times past the end of the table at which the dashboard may be read
BeyondTable == {timeRange.max + TimeScale, timeRange.max + 5 * TimeScale}

\* C11 (amended): cumulativeCount[u] is the number of entities that have a
\* timestamp and floor(start) <= u; it is non-decreasing; at the last index
\* ceil(max), and in a dashboard read beyond it, it is the number of entities
\* that have a timestamp and start no later than the last whole second.
Inv_C11_CumulativeCountsWholeSeconds ==
    tableBuilt
    => /\ ArrLen(metrics.cumulative) = Ceil(timeRange.max) + 1
       /\ \A u \in 0..Ceil(timeRange.max) :
             metrics.cumulative[u] =
                 Cardinality({i \in Entities : Floor(StartOf(i)) <= u})
       /\ \A u \in 1..Ceil(timeRange.max) :
             metrics.cumulative[u - 1] <= metrics.cumulative[u]
       /\ \A t \in BeyondTable :
             UpdateDashboardDOM(t).cumulative =
                 Cardinality({i \in Entities :
                                 Floor(StartOf(i)) <= Ceil(timeRange.max)})

\* a table of two supplied entities: one starts between whole seconds and is
\* counted from the second before its start, the other has no timestamps and
\* is never counted
Wit_C11_FractionalStartAndSkipped ==
    /\ tableBuilt
    /\ Len(trajectories) = 2
    /\ Cardinality(Entities) = 1
    /\ \E i \in Entities : StartOf(i) = 190
    /\ metrics.cumulative[0] = 0
    /\ metrics.cumulative[1] = 1
    /\ metrics.cumulative[Ceil(timeRange.max)] = 1

----------------------------------------------------------------------------
(* Claims about the observers, the teardown and the failure cases of the stream *)

\* C12 (as claimed): after every ingested tick, also one ingested at full
\* capacity, the chart's update handler has run and the chart's newest tick is
\* the newest tick of the window.
Claim_C12_ChartShowsNewestTick ==
    Len(chartData) > 0
    => /\ Len(chartApplied) > 0
       /\ chartApplied[Len(chartApplied)] = chartData[Len(chartData)]

\* C13 (as claimed): starting a new subscription cancels the expiry timers of
\* the one it ends, so every pending timer was created in the current
\* subscription.
Claim_C13_TeardownCancelsTimers ==
    \A i \in DOMAIN timers : timers[i].sub = nSetups

\* C14: handling a record that is not a tick (unparsable text, or JSON that is
\* not an object) leaves the window, the substream and the chart unchanged and
\* the socket open, and a well-formed record handled in any state, also after
\* malformed ones, is appended to the window as the newest tick with the next id.
Act_C14_MalformedRecordDropped ==
    [][\A rec \in Records :
          OnMessage(rec)
          => IF rec.kind = "object"
             THEN /\ Len(chartData') > 0
                  /\ chartData'[Len(chartData')].arr = arrivals + 1
                  /\ chartData'[Len(chartData')].uid = tickCounter
                  /\ subIngested' = Append(subIngested, chartData'[Len(chartData')])
             ELSE /\ chartData' = chartData
                  /\ anomalyData' = anomalyData
                  /\ chartApplied' = chartApplied
                  /\ subIngested' = subIngested
                  /\ ws' = "open"]_vars

\* a tick was ingested after a JSON value that is not an object had been
\* handled in the same subscription (its id was consumed by that record)
Wit_C14_IngestedAfterMalformed ==
    /\ Len(subIngested) >= 2
    /\ subIngested[1].uid = 0
    /\ subIngested[2].uid = 2
    /\ Len(chartData) >= 2
    /\ chartData[Len(chartData)] = subIngested[2]

\* the ids of the ticks of a view are pairwise distinct
DistinctIds(view) ==
    \A i, j \in DOMAIN view : i # j => view[i].uid # view[j].uid

\* C15 (as claimed): the ids of the ticks ingested in a subscription are
\* strictly increasing, and the ids in the window are pairwise distinct, as
\* are the ids in the substream.
Claim_C15_IdsDistinct ==
    /\ \A i, j \in DOMAIN subIngested :
          i < j => subIngested[i].uid < subIngested[j].uid
    /\ DistinctIds(chartData)
    /\ DistinctIds(anomalyData)

\* the window index dataIndex holds no tick, or a tick whose id no substream
\* entry has
ChartMiss(dataIndex) ==
    \/ dataIndex >= Len(chartData)
    \/ \A j \in DOMAIN anomalyData : anomalyData[j].uid # chartData[dataIndex + 1].uid

\* the substream index feedIndex holds no tick, or a tick whose id no window
\* entry has
FeedMiss(feedIndex) ==
    \/ feedIndex < 0
    \/ feedIndex >= Len(anomalyData)
    \/ \A i \in DOMAIN chartData : chartData[i].uid # anomalyData[feedIndex + 1].uid

\* C16: a click whose tick has no entry with the same id in the other view, or
\* whose index holds no tick, changes neither highlight index and schedules
\* no expiry timer.
Act_C16_MissChangesNothing ==
    [][/\ \A i \in 0..MaxChartLen :
             (OnAnomalyClickFromChart(i) /\ ChartMiss(i))
             => UNCHANGED <<highlightedFeedIndex, highlightedAnomalyIndex, timers>>
       /\ \A f \in 0..MaxAnomalyLen :
             (OnCardClickFromFeed(f) /\ FeedMiss(f))
             => UNCHANGED <<highlightedFeedIndex, highlightedAnomalyIndex, timers>>
      ]_vars

\* a highlight is showing with its timer pending while the window holds an
\* anomalous tick that the substream has evicted: a click on that tick's
\* marker is a miss and leaves this state as it is
Wit_C16_MissWhileHighlighted ==
    /\ highlightedFeedIndex # Null
    /\ Len(timers) = 1
    /\ \E i \in DOMAIN chartData :
          /\ chartData[i].hasAnomaly
          /\ ChartMiss(i - 1)

----------------------------------------------------------------------------
(* Claims about the scheduling of the replay clock *)

\* the time a frame leaves, from `time` at speed `speed` in the loaded extent
FrameResult(time, speed) ==
    IF Advanced(time, speed) > timeRange.max THEN 0 ELSE Advanced(time, speed)

\* C17: the play/pause button switches between Playing and Paused; a frame
\* is pending exactly while Playing, and while Paused currentTime changes
\* only by a click on the progress bar.
Act_C17_PausedClockStandsStill ==
    [][/\ rafPending <=> isPlaying
       /\ TogglePlay => (isPlaying' = ~isPlaying /\ currentTime' = currentTime)
       /\ (~isPlaying /\ currentTime' # currentTime)
          => \E offsetX \in 0..BarWidth : HandleProgressClick(offsetX)]_vars

\* the clock is paused after it has played into the loaded extent
Wit_C17_PausedMidway ==
    /\ ~isPlaying
    /\ ~rafPending
    /\ timeRange.max > 0
    /\ currentTime > 0
    /\ currentTime < timeRange.max

\* C18: a frame starts from the time the last seek left and advances by the
\* rate that was set last: a seek writes the time the next frame reads, and the
\* pending frame always carries the current rate.
Act_C18_LastSeekAndRateWin ==
    [][/\ \A offsetX \in 0..BarWidth :
             HandleProgressClick(offsetX) => currentTime' = SeekTarget(offsetX)
       /\ \A speed \in Speeds :
             SetAnimationSpeed(speed)
             => /\ animationSpeed' = speed
                /\ currentTime' = currentTime
                /\ \A i \in DOMAIN rafCallbacks' : rafCallbacks'[i].speed = speed
       /\ (AnimateFrame /\ timeRange.max # 0)
          => currentTime' = FrameResult(currentTime, animationSpeed)]_vars

\* playing at a rate other than the initial one, with the frame that carries
\* it pending, at the time that a frame at that rate right after a seek
\* to the middle of the bar leaves
Wit_C18_FrameAfterSeekAndRate ==
    /\ isPlaying
    /\ animationSpeed = 4
    /\ rafPending
    /\ rafSpeed = 4
    /\ timeRange.max > 0
    /\ currentTime = (2 * timeRange.max) \div BarWidth + Advanced(0, 4)

\* C19: at most one frame callback is pending in every reachable state.
Inv_C19_OneFramePending ==
    Len(rafCallbacks) <= 1

\* one frame is pending after the rate was changed while playing in a loaded
\* extent
Wit_C19_PendingAfterRateChange ==
    /\ Len(rafCallbacks) = 1
    /\ isPlaying
    /\ animationSpeed = 1
    /\ rafCallbacks[1].speed = 1
    /\ timeRange.max > 0
    /\ currentTime > 0

\* C20: with max = 0 a frame changes neither the time, the playing flag, the
\* rate, the table nor the dashboard, and a frame stays pending while playing,
\* so that frames advance the time once an extent is loaded.
Act_C20_IdleFrameIsNoOp ==
    [][/\ (timeRange.max = 0 /\ isPlaying) => rafPending
       /\ (AnimateFrame /\ timeRange.max = 0)
          => /\ UNCHANGED <<currentTime, isPlaying, animationSpeed, metrics,
                            dashboard, timeRange>>
             /\ rafCallbacks' # <<>>
             /\ \A i \in DOMAIN rafCallbacks' :
                   rafCallbacks'[i].speed = animationSpeed]_vars

\* the load has ended without an extent and the idle clock is playing with a
\* frame pending at a rate set meanwhile
Wit_C20_IdleAfterEmptyLoad ==
    /\ ~loadPending
    /\ timeRange.max = 0
    /\ isPlaying
    /\ rafPending
    /\ animationSpeed = 4
    /\ currentTime = 0


----------------------------------------------------------------------------
(* Claims about the dashboard and the table's summary *)

\* the AggregateTable of the entity set that is loaded
CurrentTable == BuildMetrics(trajectories, timeRange.max)

\* the metrics of table m at index floor(time), the load fraction in percent
MetricsAt(m, time) ==
    [active |-> m.active[Floor(time)],
     cumulative |-> m.cumulative[Floor(time)],
     loadPct |-> RoundPct(m.active[Floor(time)], m.maxActive)]

\* a frame or a seek has changed the time or the dashboard
TickOrSeek ==
    /\ loadPending' = loadPending
    /\ currentTime' # currentTime \/ dashboard' # dashboard

\* C21 (as claimed): after every frame that advances the clock and after every
\* seek, the dashboard shows activeCount, cumulativeCount and the load fraction
\* of the table built from the loaded entity set, at index floor(currentTime)
\* for the new currentTime.
Claim_C21_DashboardShowsCurrentRow ==
    [][TickOrSeek => dashboard' = MetricsAt(CurrentTable, currentTime')]_vars


\* C22: maxActive is the largest activeCount of the table, and 1 when no
\* entity is active at any second, so at every second the load fraction
\* activeCount / maxActive is defined and lies between 0 and 1 (0% to 100%).
Inv_C22_MaxActiveFlooredAtOne ==
    LET units == DOMAIN metrics.active
    IN  /\ metrics.maxActive >= 1
        /\ \A u \in units :
              /\ 0 <= metrics.active[u]
              /\ metrics.active[u] <= metrics.maxActive
              /\ RoundPct(metrics.active[u], metrics.maxActive) \in 0..100
        /\ (\E u \in units : metrics.active[u] >= 1)
           => \E u \in units : metrics.active[u] = metrics.maxActive
        /\ (\A u \in units : metrics.active[u] = 0) => metrics.maxActive = 1

\* a table has been built from entities none of which is active at any second
Wit_C22_BuiltWithNoneActive ==
    /\ tableBuilt
    /\ ArrLen(metrics.active) = Ceil(timeRange.max) + 1
    /\ \A u \in 0..Ceil(timeRange.max) : metrics.active[u] = 0
    /\ metrics.maxActive = 1


\* the difference-array construction: one entity adds +1 where its first whole
\* second begins and -1 after its last one, and +1 to the starts of its first
\* second; deltas that fall outside the arrays are not recorded
AddDeltas(acc, ts, maxSec) ==
    IF Len(ts) = 0 THEN acc
    ELSE LET startSec == Max(0, Floor(ts[1]))
             endSec == Min(maxSec, Ceil(ts[Len(ts)]))
         IN  [diff |-> [s \in 0..(maxSec + 1) |->
                          acc.diff[s] + (IF s = startSec THEN 1 ELSE 0)
                                      - (IF s = endSec + 1 THEN 1 ELSE 0)],
              starts |-> [s \in 0..maxSec |->
                            acc.starts[s] + (IF s = startSec THEN 1 ELSE 0)]]

\* the deltas of the first n entities
RECURSIVE Deltas(_, _, _)
Deltas(trajs, n, maxSec) ==
    IF n = 0
    THEN [diff |-> [s \in 0..(maxSec + 1) |-> 0], starts |-> [s \in 0..maxSec |-> 0]]
    ELSE AddDeltas(Deltas(trajs, n - 1, maxSec), trajs[n], maxSec)

\* the prefix sum of array a up to index i
RECURSIVE PrefixSum(_, _)
PrefixSum(a, i) == IF i < 0 THEN 0 ELSE PrefixSum(a, i - 1) + a[i]

\* the table built from the difference array, prefix-summed once
BuildByDifference(trajs, max) ==
    LET maxSec == Ceil(max)
        deltas == Deltas(trajs, Len(trajs), maxSec)
    IN  [active |-> [u \in 0..maxSec |-> PrefixSum(deltas.diff, u)],
         cumulative |-> [u \in 0..maxSec |-> PrefixSum(deltas.starts, u)]]

----------------------------------------------------------------------------
(* Claims about subscriptions, the sockets and the replay controls *)

\* setMode() or switchCase() has started a subscription (the one onMounted
\* starts is not one of them)
NewSubscription ==
    /\ nSetups' # nSetups
    /\ mountPending' = mountPending

----------------------------------------------------------------------------
(* Claims about the city loader *)

\* C25 (as claimed): the three data files of a city are requested at most
\* once, whatever the order of the city switches and of the answers (a city
\* whose load failed aside).
Claim_C25_CityFetchedOnce ==
    \A city \in Cities \ failedCities : fetchCount[city] <= 1


\* every loadCityData() call has completed
NoLoadOutstanding == \A city \in Cities : cityFetches[city] = 0

\* C29 (as claimed): once every outstanding load has completed, the buildings
\* and the POI data displayed are those of currentCity, whatever the order of
\* the city switches, the answers and the cache hits (a city whose load
\* failed aside).
Claim_C29_ShownCityIsCurrentCity ==
    (NoLoadOutstanding /\ currentCity \notin failedCities)
    => cityShown = currentCity


\* C28 (as claimed): whatever the order of the new socket's open event and
\* the previous socket's close event after a switch of subscription,
\* wsConnected is not false while the current socket is open.
Claim_C28_ConnectedWhileOpen ==
    ws = "open" => wsConnected

\* C30 (as claimed): after any sequence of togglePause calls, also ones made
\* while the socket is not open, isPaused is true exactly when the last
\* pause/resume message sent on the current socket was 'pause' (false when it
\* was 'resume' or none was sent).
Claim_C30_PausedMatchesCommand ==
    isPaused <=> wsSent.replay = "pause"

----------------------------------------------------------------------------
(* Claims about the highlights and the chart's markers under eviction *)

\* the view a highlight of `view` points into
TargetOf(view) == IF view = "feed" THEN anomalyData ELSE chartData

\* C26 (as claimed): while a highlight is present, the index it holds
\* designates, in the view it points into, the tick it was created for, also
\* after ingests have evicted older ticks from that view.
Claim_C26_HighlightKeepsItsTick ==
    \A view \in Views :
       HighlightOf(view) # Null
       => /\ HighlightOf(view) < Len(TargetOf(view))
          /\ TargetOf(view)[HighlightOf(view) + 1].arr = highlightFor[view]


\* the markers drawn for ticks of the current subscription
OwnMarkers ==
    {o \in overlays : \E k \in DOMAIN subIngested : subIngested[k].arr = o.for}

\* C27 (as claimed): the window position a marker reports when it is clicked,
\* captured when the marker was created, designates the tick the marker was
\* drawn for, also after later ingests and evictions, so the click resolves
\* to the feed card of that tick.
Claim_C27_MarkerDesignatesItsTick ==
    \A o \in OwnMarkers :
       /\ o.dataIdx < Len(chartData)
       /\ chartData[o.dataIdx + 1].arr = o.for
       /\ FeedIndexOfChart(o.dataIdx) >= 0
          => anomalyData[FeedIndexOfChart(o.dataIdx) + 1].arr = o.for

============================================================================
